---- MODULE Spec2Model ----
(***************************************************************************)
(* Model of the concurrent harvesting pipeline of prepare_floders.py:      *)
(* main() opens the manifest (train.csv), submits one fetch_and_process    *)
(* job per entry of urls_cuisines to a ThreadPoolExecutor, and every job   *)
(* walks  page_get -> get_data -> detail_get -> csv_writer.writerow.       *)
(* The web site and the file system are the environment: the result of     *)
(* every request and of every file write is drawn nondeterministically.    *)
(***************************************************************************)
EXTENDS Integers, Sequences, FiniteSets, TLC

(* ------------------------------ bounds -------------------------------- *)
\* largest number of pages after the first, listing entries and image
\* references the site shows during a run, over all categories
MaxSite == 5

(* ------------------------- program constants -------------------------- *)
\* main(): urls_cuisines, the configured cuisines in submission order
urls_cuisines == <<"lucai", "huicai">>
\* main(): ThreadPoolExecutor(max_workers=5)
max_workers == 5
\* main(): img_counter = 1
InitialCounter == 1

Jobs == {urls_cuisines[i] : i \in DOMAIN urls_cuisines}

VARIABLES
    mainPc,         \* position of main(): start, submit, collect, shutdown, close, returned, raised
    mainExc,        \* TRUE when an exception is propagating out of main()
    mainCounter,    \* main()'s own img_counter variable
    mainResult,     \* what the call of main() produced: pending, None, exception
    futures,        \* main(): the list of submitted jobs, in submission order
    collected,      \* futures already yielded by as_completed
    csvfile,        \* the manifest file object: unopened, open, closed
    csvHeader,      \* TRUE once the header row was written
    closeCount,     \* how many times the manifest file was closed
    manifest,       \* the data rows of train.csv, in file order
    disk,           \* image files: path -> absent, partial, complete
    saved,          \* per job: the paths of its successful downloads, in order
    job,            \* per job: the thread's state and fetch_and_process's locals
    pagesAttempted, \* per job: the pages passed to get_data, in order
    pageGetFailed,  \* per job: TRUE when page_get's request failed
    landing,        \* per job: what the page_get that has just returned found
                    \* on the landing page; none before it and after the next step
    pageFailed,     \* per job: the pages whose get_data request failed
    clean,          \* per job: TRUE while no request, write or append has failed
    shown,          \* the number of site elements shown so far
    images_dir      \* TRUE when ./CAIXI/CAIPING_data/images exists

vars == <<mainPc, mainExc, mainCounter, mainResult, futures, collected, csvfile, csvHeader,
          closeCount, manifest, disk, saved, job, pagesAttempted,
          pageGetFailed, landing, pageFailed, clean, shown, images_dir>>

mainVars == <<mainPc, mainExc, mainCounter, mainResult, futures, collected, csvfile,
              csvHeader, closeCount>>
ghostVars == <<pagesAttempted, pageGetFailed, landing, pageFailed>>
siteVars == <<shown, images_dir>>

(* ------------------------------ helpers ------------------------------- *)
\* detail_get line 70: os.path.join(output_dir, f'{cuisine}_{img_counter}.jpg')
ImgPath(cuisine, n) == <<cuisine, n>>

Paths == {ImgPath(c, n) : c \in Jobs, n \in 1..(MaxSite + 1)}

Terminal(j) == job[j].st \in {"done", "raised"}

Running == {j \in Jobs : job[j].st = "running"}

RowsOf(j) == SelectSeq(manifest, LAMBDA r : r.label = j)


(* ------------------------ results of a request ------------------------ *)
\* what a request can yield: a failure of some kind, or a document with n
\* elements of the kind the caller extracts
Failure(kinds) == {[kind |-> k, n |-> 0] : k \in kinds}
Document(kind, most) == {[kind |-> kind, n |-> n] : n \in 0..most}

(* --------------------- pure parts of the functions -------------------- *)
\* a page_get without the fallback: no page when the indicator cannot be read
page_get_no_fallback(outcome) ==
    IF outcome.kind = "indicator" THEN outcome.n ELSE 0

\* a page_get in which int() on the indicator's text is not caught
page_get_int_uncaught(outcome) ==
    IF outcome.kind = "indicator" THEN outcome.n
    ELSE IF outcome.kind = "unparsable" THEN 0 ELSE 1

\* page_get: the total-pages indicator, or 1 when the request fails, the
\* indicator is absent (empty xpath result) or int() raises on its text
page_get(outcome) ==
    IF outcome.kind = "indicator" THEN outcome.n ELSE 1

\* get_data: the number of listing entries returned; [] when the request fails
get_data(outcome) ==
    IF outcome.kind = "fetch_error" THEN 0 ELSE outcome.n

\* a page loop that a failed page ends
PageLoopStopsOnFailure(page, total_pages, failed) ==
    page < total_pages /\ ~failed

\* fetch_and_process line 91: for page in range(1, total_pages + 1)
PageLoopContinues(page, total_pages, failed) == page < total_pages

\* a dish loop that a failed detail page ends
DishLoopStopsOnFailure(index, dishes, failed) ==
    index < dishes /\ ~failed

\* fetch_and_process line 95: for index, dish in enumerate(dishes, start=1)
DishLoopContinues(index, dishes, failed) == index < dishes

\* a list of paths built newest first
ImgPathsPrepend(img_paths, img_path) == <<img_path>> \o img_paths

\* detail_get line 73: img_paths.append(img_path)
ImgPathsAppend(img_paths, img_path) == Append(img_paths, img_path)

\* a counter that a saved image does not advance
CounterNotAdvanced(img_counter) == img_counter

\* detail_get line 74: img_counter += 1
CounterAfterSave(img_counter) == img_counter + 1

\* a handler that returns the paths gathered so far, the failed one included
FailureReturnsPaths(img_paths, img_path) == Append(img_paths, img_path)

\* detail_get line 80: return "", [], img_counter
FailureReturnPaths(img_paths, img_path) == << >>

\* detail_get lines 71-72: the file after open(img_path, 'wb') and a full write
DiskAfterWrite(d, img_path) == [d EXCEPT ![img_path] = "complete"]

\* a shutdown that does not wait for the worker threads
ExecutorNotJoined(js) == TRUE

\* main line 125: leaving the executor's with-block is shutdown(wait=True),
\* which joins every worker thread, so it returns once no job is pending
ExecutorJoined(js) == \A j \in js : job[j].st \in {"done", "raised"}

\* main lines 129-130: the value of future.result() is dropped, no count is
\* kept and main() has no return statement, so a call of main() yields None
MainReturnValue == "None"

\* the jobs share one run of numbers: a later submission starts further on
CounterOfSubmission(c) == c + Len(futures)

\* main line 128: img_counter is passed to submit() by value
CounterArgument(c) == c

(* -------------------------------- Init -------------------------------- *)
NewJob == [st |-> "unsubmitted", pc |-> "page_get", total_pages |-> 0,
           page |-> 0, dishes |-> 0, index |-> 0, img_urls |-> 0, img |-> 0,
           img_counter |-> 0, img_paths |-> << >>, row |-> 0,
           detail |-> "none", raced |-> FALSE]

Init ==
    /\ mainPc = "start"
    /\ mainExc = FALSE
    /\ mainCounter = InitialCounter
    /\ mainResult = "pending"
    /\ futures = << >>
    /\ collected = {}
    /\ csvfile = "unopened"
    /\ csvHeader = FALSE
    /\ closeCount = 0
    /\ manifest = << >>
    /\ disk = [p \in Paths |-> "absent"]
    /\ saved = [j \in Jobs |-> << >>]
    /\ job = [j \in Jobs |-> NewJob]
    /\ pagesAttempted = [j \in Jobs |-> << >>]
    /\ pageGetFailed = [j \in Jobs |-> FALSE]
    /\ landing = [j \in Jobs |-> "none"]
    /\ pageFailed = [j \in Jobs |-> {}]
    /\ clean = [j \in Jobs |-> TRUE]
    /\ shown = 0
    /\ images_dir \in BOOLEAN

(* ------------------------------- main() ------------------------------- *)
\* lines 112-123: open train.csv, write the header, set img_counter = 1
MainOpen ==
    /\ mainPc = "start"
    /\ csvfile' = "open"
    /\ csvHeader' = TRUE
    /\ mainPc' = "submit"
    /\ UNCHANGED <<mainExc, mainCounter, mainResult, futures, collected, closeCount,
                   manifest, disk, saved, job, ghostVars, clean, siteVars>>

\* the loop submits its first entry over again
SubmitsFirstAgain(fs) == urls_cuisines[1]

\* line 127: for url, category, cuisine in urls_cuisines: one pass per entry,
\* in list order
NextToSubmit(fs) == urls_cuisines[Len(fs) + 1]

\* lines 127-128: futures.append(executor.submit(fetch_and_process, ...))
Submit ==
    /\ mainPc = "submit"
    /\ Len(futures) < Len(urls_cuisines)
    /\ LET j == NextToSubmit(futures) IN
        /\ futures' = Append(futures, j)
        /\ job' = [job EXCEPT ![j].st = "queued",
                              ![j].img_counter = CounterArgument(mainCounter)]
    /\ mainPc' = IF Len(futures') = Len(urls_cuisines) THEN "collect" ELSE "submit"
    /\ UNCHANGED <<mainExc, mainCounter, mainResult, collected, csvfile, csvHeader,
                   closeCount, manifest, disk, saved, ghostVars, clean, siteVars>>

\* a worker thread of the pool takes a queued job; at most max_workers threads
Start(j) ==
    /\ job[j].st = "queued"
    /\ Cardinality(Running) < max_workers
    /\ job' = [job EXCEPT ![j].st = "running"]
    /\ UNCHANGED <<mainVars, manifest, disk, saved, ghostVars, clean, siteVars>>

\* lines 129-130: as_completed yields a finished future; result() returns
\* the job's None or re-raises the job's exception
Collect(j) ==
    /\ mainPc = "collect"
    /\ j \in Jobs \ collected
    /\ Terminal(j)
    /\ collected' = collected \cup {j}
    /\ IF job[j].st = "raised"
         THEN mainExc' = TRUE /\ mainPc' = "shutdown"
         ELSE /\ mainExc' = FALSE
              /\ mainPc' = IF collected' = Jobs THEN "shutdown" ELSE "collect"
    /\ UNCHANGED <<mainCounter, mainResult, futures, csvfile, csvHeader, closeCount,
                   manifest, disk, saved, job, ghostVars, clean, siteVars>>

\* line 125: ThreadPoolExecutor.__exit__, on the normal and the exception path
ExecutorExit ==
    /\ mainPc = "shutdown"
    /\ ExecutorJoined({futures[i] : i \in DOMAIN futures})
    /\ mainPc' = "close"
    /\ UNCHANGED <<mainExc, mainCounter, mainResult, futures, collected, csvfile,
                   csvHeader, closeCount, manifest, disk, saved, job, ghostVars, clean,
                   siteVars>>

\* line 112: the with-block of open() closes train.csv, then main() returns
\* or lets the pending exception propagate
CsvClose ==
    /\ mainPc = "close"
    /\ csvfile' = "closed"
    /\ closeCount' = closeCount + 1
    /\ mainPc' = IF mainExc THEN "raised" ELSE "returned"
    /\ mainResult' = IF mainExc THEN "exception" ELSE MainReturnValue
    /\ UNCHANGED <<mainExc, mainCounter, futures, collected, csvHeader,
                   manifest, disk, saved, job, ghostVars, clean, siteVars>>

(* ------------------------- fetch_and_process -------------------------- *)
\* a page whose listing fetch failed is requested again
RetryPage(page, failed) == IF failed THEN page ELSE page + 1

\* line 91: for page in range(1, total_pages + 1): the page after this one,
\* whether or not get_data failed on this one
NextPage(page, failed) == page + 1

\* line 91: the loop header after one page: the next page, or the final print.
\* dishes and index are dead there (line 93 and line 95 assign them anew).
AfterPage(r, failed) ==
    IF PageLoopContinues(r.page, r.total_pages, failed)
      THEN [r EXCEPT !.page = NextPage(r.page, failed), !.dishes = 0, !.index = 0,
                     !.pc = "get_data"]
      ELSE [r EXCEPT !.page = 0, !.dishes = 0, !.index = 0, !.pc = "end"]

\* the delay is taken after the last listing entry of a page only
SleepsAfterLastEntry(index, dishes) == index = dishes

\* line 105: time.sleep(5) is the last statement of the body of the dish loop
\* of line 95: it is reached at the end of every listing entry
SleepsAfterEntry(index, dishes) == TRUE

\* lines 95 and 91: the loop headers after one listing entry: the next dish,
\* the next page or the end of the page loop. The values of img_paths and
\* text_content are dead there (line 98 assigns them anew).
NextEntry(r) ==
    LET failed == r.detail # "ok"
        s == [r EXCEPT !.img_paths = << >>, !.detail = "none"]
    IN IF DishLoopContinues(r.index, r.dishes, failed)
         THEN [s EXCEPT !.index = r.index + 1, !.pc = "detail_get"]
         ELSE AfterPage(s, FALSE)

\* lines 102-105: the rows of the entry are written (or there are none): the
\* delay of line 105 is next
AfterRows(r) ==
    IF SleepsAfterEntry(r.index, r.dishes)
      THEN [r EXCEPT !.pc = "sleep"]
      ELSE NextEntry(r)

\* line 88: total_pages = page_get(url)
PageGet(j) ==
    /\ job[j].st = "running"
    /\ job[j].pc = "page_get"
    /\ \E o \in Failure({"fetch_error", "absent", "unparsable"})
                 \cup Document("indicator", 1 + MaxSite - shown) :
        /\ job' = [job EXCEPT ![j] =
                     IF page_get(o) >= 1
                       THEN [@ EXCEPT !.total_pages = page_get(o), !.page = 1,
                                      !.pc = "get_data"]
                       ELSE [@ EXCEPT !.total_pages = page_get(o), !.pc = "end"]]
        /\ pageGetFailed' = [pageGetFailed EXCEPT ![j] = (o.kind = "fetch_error")]
        /\ landing' = [landing EXCEPT ![j] = o.kind]
        /\ clean' = [clean EXCEPT ![j] = @ /\ o.kind # "fetch_error"]
        /\ shown' = shown + (IF page_get(o) > 1 THEN page_get(o) - 1 ELSE 0)
    /\ UNCHANGED <<mainVars, manifest, disk, saved, pagesAttempted, pageFailed,
                   images_dir>>

\* lines 92-93: dishes = get_data(page_url); an empty list ends the page
GetData(j) ==
    /\ job[j].st = "running"
    /\ job[j].pc = "get_data"
    /\ \E o \in Failure({"fetch_error"}) \cup Document("listing", MaxSite - shown) :
        /\ job' = [job EXCEPT ![j] =
                     IF get_data(o) >= 1
                       THEN [@ EXCEPT !.dishes = get_data(o), !.index = 1,
                                      !.pc = "detail_get"]
                       ELSE AfterPage(@, o.kind = "fetch_error")]
        /\ pageFailed' = [pageFailed EXCEPT ![j] =
                            IF o.kind = "fetch_error" THEN @ \cup {job[j].page} ELSE @]
        /\ clean' = [clean EXCEPT ![j] = @ /\ o.kind # "fetch_error"]
        /\ shown' = shown + get_data(o)
    /\ pagesAttempted' = [pagesAttempted EXCEPT ![j] = Append(@, job[j].page)]
    /\ landing' = [landing EXCEPT ![j] = "none"]
    /\ UNCHANGED <<mainVars, manifest, disk, saved, pageGetFailed,
                   images_dir>>

\* line 98, detail_get lines 52-66: fetch the detail page, find the content
\* container and its image urls
DetailGet(j) ==
    /\ job[j].st = "running"
    /\ job[j].pc = "detail_get"
    /\ \E o \in Failure({"fetch_error", "no_container"})
                 \cup Document("ok", MaxSite - shown) :
        /\ job' = [job EXCEPT ![j] =
                     IF o.kind \in {"fetch_error", "no_container"}
                       THEN AfterRows([@ EXCEPT !.detail = o.kind,
                                                !.img_paths = << >>])
                     ELSE IF o.n = 0
                       THEN AfterRows([@ EXCEPT !.detail = "ok",
                                                !.img_paths = << >>])
                       ELSE [@ EXCEPT !.detail = "ok", !.img_paths = << >>,
                                      !.img_urls = o.n, !.img = 1,
                                      !.pc = "img_loop"]]
        /\ clean' = [clean EXCEPT ![j] = @ /\ o.kind \notin {"fetch_error", "no_container"}]
        /\ shown' = shown + o.n
    /\ UNCHANGED <<mainVars, manifest, disk, saved, ghostVars, images_dir>>

\* the number of the failed download is given up
CounterSkipsOnFailure(img_counter, img_paths) == img_counter + 1

\* the numbers of the images the item had already saved are given back
CounterRolledBack(img_counter, img_paths) == img_counter - Len(img_paths)

\* line 80: return "", [], img_counter: the counter as it stands, line 74 not
\* reached for the failed image, not undone for the images saved before it
CounterAfterFailure(img_counter, img_paths) == img_counter

\* detail_get's return to line 98 and the header of the row loop of line 102
Returned(r, img_paths, img_counter, detail) ==
    LET s == [r EXCEPT !.img_paths = img_paths, !.img_counter = img_counter,
                       !.detail = detail, !.img_urls = 0, !.img = 0]
    IN IF img_paths = << >>
         THEN AfterRows([s EXCEPT !.row = 0])
         ELSE [s EXCEPT !.row = 1, !.pc = "row_loop"]

\* detail_get lines 67-74, one iteration of the image loop: download the
\* image, open and write the file, record the path, advance the counter
ImgStep(j) ==
    /\ job[j].st = "running"
    /\ job[j].pc = "img_loop"
    /\ LET r == job[j]
           img_path == ImgPath(j, r.img_counter)
       IN \E o \in {"get_error", "open_error"}
                    \cup (IF images_dir THEN {"write_error", "ok"} ELSE {}) :
            IF o = "ok"
              THEN /\ disk' = DiskAfterWrite(disk, img_path)
                   /\ saved' = [saved EXCEPT ![j] =
                                  Append(@, [img_path |-> img_path, page |-> r.page,
                                             item |-> r.index, img |-> r.img])]
                   /\ job' = [job EXCEPT ![j] =
                                IF r.img = r.img_urls
                                  THEN Returned(r, ImgPathsAppend(r.img_paths, img_path),
                                                CounterAfterSave(r.img_counter), "ok")
                                  ELSE [r EXCEPT
                                          !.img_paths = ImgPathsAppend(r.img_paths, img_path),
                                          !.img_counter = CounterAfterSave(r.img_counter),
                                          !.img = r.img + 1]]
                   /\ UNCHANGED clean
              ELSE /\ disk' = IF o = "write_error"
                                THEN [disk EXCEPT ![img_path] = "partial"]
                                ELSE disk
                   /\ job' = [job EXCEPT ![j] =
                                Returned(r, FailureReturnPaths(r.img_paths, img_path),
                                         CounterAfterFailure(r.img_counter, r.img_paths),
                                         "img_error")]
                   /\ clean' = [clean EXCEPT ![j] = FALSE]
                   /\ UNCHANGED saved
    /\ UNCHANGED <<mainVars, manifest, ghostVars, siteVars>>

\* line 103: the call csv_writer.writerow(...) is entered; nothing keeps a
\* second job from entering it on the same writer object
RowBegin(j) ==
    /\ job[j].st = "running"
    /\ job[j].pc = "row_loop"
    /\ LET inside == {k \in Jobs : job[k].pc = "writerow"} IN
        job' = [k \in Jobs |->
                  IF k = j THEN [job[k] EXCEPT !.pc = "writerow",
                                               !.raced = (inside # {})]
                  ELSE IF k \in inside THEN [job[k] EXCEPT !.raced = TRUE]
                  ELSE job[k]]
    /\ UNCHANGED <<mainVars, manifest, disk, saved, ghostVars, clean, siteVars>>

\* line 103: writerow returns after appending the row, or raises (I/O error).
\* A call that overlapped another job's call on the unsynchronized writer
\* leaves a row that is either whole or interleaved with the other row.
RowEnd(j) ==
    /\ job[j].st = "running"
    /\ job[j].pc = "writerow"
    /\ LET r == job[j] IN
        \/ /\ \E whole \in (IF r.raced THEN BOOLEAN ELSE {TRUE}) :
                manifest' = Append(manifest, [img_path |-> r.img_paths[r.row],
                                              label |-> j, intact |-> whole])
           /\ job' = [job EXCEPT ![j] =
                        IF r.row < Len(r.img_paths)
                          THEN [r EXCEPT !.row = r.row + 1, !.pc = "row_loop",
                                         !.raced = FALSE]
                          ELSE AfterRows([r EXCEPT !.row = 0, !.raced = FALSE])]
           /\ UNCHANGED clean
        \/ /\ job' = [job EXCEPT ![j] =
                        [NewJob EXCEPT !.st = "raised", !.pc = "end",
                                       !.img_counter = r.img_counter,
                                       !.total_pages = r.total_pages]]
           /\ clean' = [clean EXCEPT ![j] = FALSE]
           /\ UNCHANGED manifest
    /\ UNCHANGED <<mainVars, disk, saved, ghostVars, siteVars>>

\* line 105: time.sleep(5), the last statement of the body of the dish loop;
\* then the next dish, the next page or the end of the page loop
Sleep(j) ==
    /\ job[j].st = "running"
    /\ job[j].pc = "sleep"
    /\ job' = [job EXCEPT ![j] = NextEntry(job[j])]
    /\ UNCHANGED <<mainVars, manifest, disk, saved, ghostVars, clean, siteVars>>

\* line 106: the final print; the function returns and the future is done
Finish(j) ==
    /\ job[j].st = "running"
    /\ job[j].pc = "end"
    /\ job' = [job EXCEPT ![j].st = "done"]
    /\ landing' = [landing EXCEPT ![j] = "none"]
    /\ UNCHANGED <<mainVars, manifest, disk, saved, pagesAttempted, pageGetFailed,
                   pageFailed, clean, siteVars>>

(* ---------------------------- specification --------------------------- *)
Next ==
    \/ MainOpen
    \/ Submit
    \/ ExecutorExit
    \/ CsvClose
    \/ \E j \in Jobs : Start(j)
    \/ \E j \in Jobs : Collect(j)
    \/ \E j \in Jobs : PageGet(j)
    \/ \E j \in Jobs : GetData(j)
    \/ \E j \in Jobs : DetailGet(j)
    \/ \E j \in Jobs : ImgStep(j)
    \/ \E j \in Jobs : RowBegin(j)
    \/ \E j \in Jobs : RowEnd(j)
    \/ \E j \in Jobs : Sleep(j)
    \/ \E j \in Jobs : Finish(j)

Spec == Init /\ [][Next]_vars

\* the run does not stall while a thread can take a step: each call
\* (requests.get with its answer, open, write, writerow, sleep, result)
\* returns or raises
FairSpec == Spec /\ WF_vars(Next)

(* ------------------------- reading the history ------------------------ *)
Range(f) == {f[i] : i \in DOMAIN f}

\* the category a file name belongs to (its '{cuisine}_' prefix)
Category(img_path) == img_path[1]

\* the successful downloads that wrote the file a manifest row names
Origins(row) == {s \in Range(saved[row.label]) : s.img_path = row.img_path}

\* page, then listing entry, then image
Before(s, t) ==
    \/ s.page < t.page
    \/ s.page = t.page /\ s.item < t.item
    \/ s.page = t.page /\ s.item = t.item /\ s.img < t.img

InsideWriterow == {j \in Jobs : job[j].pc = "writerow"}

(* ------------------------------- claims ------------------------------- *)

\* C1: no two successful image downloads of the same category are written
\* under the same file name, also when several jobs download concurrently.
C1_UniqueNames ==
    \A j \in Jobs, k \in Jobs :
        \A a \in DOMAIN saved[j], b \in DOMAIN saved[k] :
            (<<j, a>> # <<k, b>>
               /\ Category(saved[j][a].img_path) = Category(saved[k][b].img_path))
            => saved[j][a].img_path # saved[k][b].img_path

\* two jobs are running, one has saved two images and the other one image
C1_Witness ==
    \E j \in Jobs, k \in Jobs :
        /\ j # k
        /\ job[j].st = "running" /\ job[k].st = "running"
        /\ Len(saved[j]) >= 2 /\ Len(saved[k]) >= 1

\* C2: every data row of the manifest names an image file that is completely
\* written on disk, in every state from the append on.
C2_RowsBacked ==
    \A i \in DOMAIN manifest :
        /\ disk[manifest[i].img_path] = "complete"
        /\ Origins(manifest[i]) # {}

\* a row was appended while a truncated image file of a failed write exists
C2_Witness ==
    /\ manifest # << >>
    /\ \E p \in Paths : disk[p] = "partial"

\* C3 (as claimed): at the end of a job every image it downloaded and wrote
\* successfully has exactly one manifest row, whether or not another image
\* of the same item failed.
C3_OneRowPerImage ==
    \A j \in Jobs :
        job[j].st = "done" =>
            \A a \in DOMAIN saved[j] :
                Cardinality({i \in DOMAIN manifest :
                               manifest[i].img_path = saved[j][a].img_path}) = 1

\* C4: the manifest file is closed exactly once, and only after every
\* submitted job is done or has raised, on the normal and on the exception
\* path of main().
C4_ClosedOnceAfterJobs ==
    /\ closeCount <= 1
    /\ (csvfile = "closed") = (closeCount = 1)
    /\ csvfile = "closed" =>
          /\ Len(futures) = Len(urls_cuisines)
          /\ \A j \in Range(futures) : Terminal(j)
    /\ mainPc \in {"returned", "raised"} => closeCount = 1

\* main() ended with a job's error it collected while another job, which
\* as_completed never yielded, was still to finish; the file is closed
C4_Witness ==
    /\ mainPc = "raised"
    /\ csvfile = "closed"
    /\ \E j \in Jobs, k \in Jobs :
          job[j].st = "raised" /\ job[k].st = "done" /\ k \notin collected

\* C5 (as claimed): at no time are two jobs inside a row append to the
\* shared manifest writer.
C5_SerializedAppends == Cardinality(InsideWriterow) <= 1

C7_AllPagesAttempted ==
    \A j \in Jobs :
        /\ \A i \in DOMAIN pagesAttempted[j] : pagesAttempted[j][i] = i
        /\ Len(pagesAttempted[j]) <= job[j].total_pages
        /\ pageFailed[j] \subseteq Range(pagesAttempted[j])
        /\ job[j].st = "done" => Len(pagesAttempted[j]) = job[j].total_pages
        /\ \A s \in Range(saved[j]) : s.page \notin pageFailed[j]
        /\ \A i \in DOMAIN manifest :
              manifest[i].label = j =>
                  \A s \in Origins(manifest[i]) : s.page \notin pageFailed[j]

\* a job is done whose page 1 failed and whose page 2 gave a row
C7_Witness ==
    \E j \in Jobs :
        /\ job[j].st = "done"
        /\ job[j].total_pages = 2
        /\ pageFailed[j] = {1}
        /\ pagesAttempted[j] = <<1, 2>>
        /\ RowsOf(j) # << >>

DetailFailed(r) == r.detail \in {"fetch_error", "no_container"}

\* after the item at which job j stands: no image saved, no row appended
NothingFromItem(j) ==
    /\ \A s \in Range(saved[j]) :
          ~(s.page = job[j].page /\ s.item = job[j].index)
    /\ \A i \in DOMAIN manifest :
          manifest[i].label = j =>
              \A s \in Origins(manifest[i]) :
                  ~(s.page = job[j].page /\ s.item = job[j].index)

\* the step of job j that fetches a detail page and fails, or finds no
\* main-content container: nothing is written and the job goes on running
DetailFailureStep(j) ==
    (job[j].pc = "detail_get" /\ job'[j] # job[j] /\ DetailFailed(job'[j]))
    => /\ job'[j].st = "running"
       /\ job'[j].pc = "sleep"
       /\ manifest' = manifest /\ saved' = saved /\ disk' = disk

\* the step of job j that leaves an item whose detail page failed: the next
\* listing entry of the same page when there is one, else the job's page
\* loop goes on; no row is appended for the item
AfterDetailFailureStep(j) ==
    (job[j].pc = "sleep" /\ DetailFailed(job[j]) /\ job'[j] # job[j])
    => /\ job'[j].st = "running"
       /\ manifest' = manifest
       /\ IF job[j].index < job[j].dishes
            THEN /\ job'[j].pc = "detail_get"
                 /\ job'[j].page = job[j].page
                 /\ job'[j].index = job[j].index + 1
            ELSE job'[j].pc \in {"get_data", "end"}

\* C8: an item whose detail page cannot be fetched, or has no main-content
\* container, contributes no image and no manifest row, and the job goes on
\* with the next listing entry of the same page without terminating.
C8_DetailFailureSkipsItem ==
    /\ [](\A j \in Jobs :
            (job[j].pc = "sleep" /\ DetailFailed(job[j]))
            => job[j].st = "running" /\ NothingFromItem(j))
    /\ [][\A j \in Jobs : DetailFailureStep(j) /\ AfterDetailFailureStep(j)]_vars

\* a job stands at the second entry of a page whose first entry's detail
\* page had no main-content container, and the first entry left nothing
C8_Witness ==
    \E j \in Jobs :
        /\ job[j].st = "running"
        /\ job[j].pc = "sleep"
        /\ job[j].detail = "no_container"
        /\ job[j].index = 1 /\ job[j].dishes = 2

\* C9: the rows one job appended stand in the manifest in that job's order
\* of page, then listing entry, then image, whatever rows of other jobs lie
\* between them.
C9_JobOrder ==
    \A a \in DOMAIN manifest, b \in DOMAIN manifest :
        (a < b /\ manifest[a].label = manifest[b].label)
        => /\ Origins(manifest[a]) # {}
           /\ Origins(manifest[b]) # {}
           /\ \A s \in Origins(manifest[a]), t \in Origins(manifest[b]) :
                 Before(s, t)

\* two rows of one job with a row of the other job between them
C9_Witness ==
    \E a \in DOMAIN manifest, b \in DOMAIN manifest, c \in DOMAIN manifest :
        /\ a < b /\ b < c
        /\ manifest[a].label = manifest[c].label
        /\ manifest[a].label # manifest[b].label

\* C10 (as claimed): when the jobs of the two categories have run
\* concurrently to their end without any failure and each has downloaded n
\* images, the manifest has exactly 2n data rows, every one whole, n of them
\* with each category's label and file-name prefix, and the 2n file names
\* are pairwise distinct.
C10_TwoCategories ==
    (/\ \A j \in Jobs : job[j].st = "done" /\ clean[j]
     /\ \E n \in 1..MaxSite : \A j \in Jobs : Len(saved[j]) = n)
    => /\ Len(manifest) = Len(saved["lucai"]) + Len(saved["huicai"])
       /\ \A i \in DOMAIN manifest : manifest[i].intact
       /\ \A j \in Jobs :
             Cardinality({i \in DOMAIN manifest :
                            /\ manifest[i].label = j
                            /\ Category(manifest[i].img_path) = j})
               = Len(saved[j])
       /\ \A a \in DOMAIN manifest, b \in DOMAIN manifest :
             a # b => manifest[a].img_path # manifest[b].img_path

\* C11 (as claimed): an error raised inside a job ends neither a sibling job
\* nor the coordinator: when main() ends every job has reached its own end,
\* and main() returns normally, no job's error propagating out of it.
C11_ErrorsStayInJob ==
    /\ mainPc \in {"returned", "raised"} => \A j \in Jobs : Terminal(j)
    /\ ~mainExc
    /\ mainPc # "raised"

\* a report: an entry for every job, completed or failed, with its counts
IsReport(v) ==
    /\ v \notin {"pending", "None", "exception"}
    /\ DOMAIN v = Jobs
    /\ \A j \in Jobs :
          /\ v[j].status \in {"completed", "failed"}
          /\ v[j].status = "failed" <=> job[j].st = "raised"
          /\ v[j].pages = Len(pagesAttempted[j])
          /\ v[j].images = Len(saved[j])

\* C12 (as claimed): when main() has ended it has produced a report in which
\* every submitted job appears once, completed or failed, with its counts of
\* pages attempted and images downloaded.
C12_ReportProduced ==
    mainPc \in {"returned", "raised"} => IsReport(mainResult)

\* the order of two positions: smaller at the first component that differs
LexLess(a, b) ==
    \E i \in 1..Len(a) : /\ a[i] < b[i]
                         /\ \A k \in 1..(i - 1) : a[k] = b[k]

\* how far a job is: its state, its phase, the page, the listing entry, the
\* stage inside the entry, the image, the row, inside writerow or before it
Progress(r) ==
    << CASE r.st = "unsubmitted" -> 0
         [] r.st = "queued" -> 1
         [] r.st = "running" -> 2
         [] OTHER -> 3,
       CASE r.pc = "page_get" -> 0
         [] r.pc = "end" -> 2
         [] OTHER -> 1,
       r.page,
       r.index,
       CASE r.pc = "img_loop" -> 1
         [] r.pc \in {"row_loop", "writerow"} -> 2
         [] r.pc = "sleep" -> 3
         [] OTHER -> 0,
       r.img,
       r.row,
       IF r.pc = "writerow" THEN 1 ELSE 0 >>

\* a step of job j: its position changes or it attempts a page
Stepped(j) ==
    \/ [job'[j] EXCEPT !.raced = FALSE] # [job[j] EXCEPT !.raced = FALSE]
    \/ pagesAttempted'[j] # pagesAttempted[j]

AllEnded ==
    /\ mainPc \in {"returned", "raised"}
    /\ \A j \in Jobs : Terminal(j)

\* C13: every step of a job moves it strictly forward (no page, listing entry,
\* image or row is gone through a second time, so nothing is retried), and
\* when every call returns every job reaches its end and main() ends.
C13_Terminates ==
    /\ [][\A j \in Jobs :
            Stepped(j) => LexLess(Progress(job[j]), Progress(job'[j]))]_vars
    /\ <>AllEnded

\* both jobs ended and main() returned although page 1 of one job failed and
\* the other job went through two pages
C13_Witness ==
    /\ AllEnded
    /\ mainPc = "returned"
    /\ \E j \in Jobs : pageFailed[j] # {}
    /\ \E j \in Jobs : Len(pagesAttempted[j]) >= 2

\* the step in which an image download of job j fails (lines 68-72 raise)
ImgFailed(j) ==
    /\ job[j].pc = "img_loop"
    /\ job'[j].pc # "img_loop"
    /\ job'[j].detail = "img_error"

\* the step in which job j saves an image
ImgSaved(j) == Len(saved'[j]) = Len(saved[j]) + 1

\* C14 (as claimed): the number of a download that fails is never used again:
\* the failure leaves the job's counter beyond that number.
C14_FailedNumberRetired ==
    [][\A j \in Jobs : ImgFailed(j) => job'[j].img_counter > job[j].img_counter]_vars

\* C14 (amended): an image is written under the number the counter holds
\* before the write; a failed download leaves the counter where it was, so the
\* next download of the job is written under the same number, and the saved
\* images of a job carry the numbers 1, 2, ... without a gap.
C14_FailedNumberReused ==
    /\ [][\A j \in Jobs :
            /\ ImgFailed(j) => job'[j].img_counter = job[j].img_counter
            /\ ImgSaved(j) =>
                  saved'[j][Len(saved'[j])].img_path = ImgPath(j, job[j].img_counter)]_vars
    /\ [](\A j \in Jobs : \A a \in DOMAIN saved[j] :
            saved[j][a].img_path = ImgPath(j, a))

\* a write failed under the number the counter still holds, after an image of
\* the job had been saved
C14_Witness ==
    \E j \in Jobs :
        /\ job[j].pc = "sleep"
        /\ job[j].detail = "img_error"
        /\ disk[ImgPath(j, job[j].img_counter)] = "partial"
        /\ saved[j] # << >>

\* C15 (as claimed): the delay comes once per page, after all the listing
\* entries of the page: a job that is in its delay has the last entry of the
\* page behind it.
C15_DelayPerPage ==
    \A j \in Jobs : job[j].pc = "sleep" => job[j].index = job[j].dishes

\* the step in which job j, still running, leaves a listing entry
LeavesEntry(j) ==
    /\ job[j].st = "running"
    /\ job[j].index >= 1
    /\ job'[j].st = "running"
    /\ job'[j].index # job[j].index \/ job'[j].page # job[j].page

\* C15 (amended): the delay comes once per listing entry, after the rows of
\* the entry and before the next entry or page: a job leaves an entry only
\* through the delay, enters the delay only from the work on an entry, and a
\* page with no entry or with a failed fetch has no delay.
C15_DelayPerEntry ==
    /\ [][\A j \in Jobs :
            /\ LeavesEntry(j) => job[j].pc = "sleep"
            /\ (job'[j].pc = "sleep" /\ job[j].pc # "sleep")
                  => /\ job[j].pc \in {"detail_get", "img_loop", "writerow"}
                     /\ job'[j].index = job[j].index
                     /\ job'[j].page = job[j].page]_vars
    /\ [](\A j \in Jobs : job[j].pc = "sleep" => job[j].index >= 1)

\* a job in the delay between two listing entries of one page
C15_Witness ==
    \E j \in Jobs :
        /\ job[j].pc = "sleep"
        /\ job[j].index >= 1
        /\ job[j].index < job[j].dishes

\* C16: the counter of a submitted job goes up by one in the step that saves an
\* image and is left alone by every other step: a failed detail fetch, a
\* failed download, the rows, the delay, the next page.
C16_CounterCountsSaves ==
    [][\A j \in Jobs :
         job[j].st # "unsubmitted" =>
            job'[j].img_counter =
               IF ImgSaved(j) THEN job[j].img_counter + 1 ELSE job[j].img_counter]_vars

\* a download failed after an image of the same listing entry had been
\* saved: the counter is one more than the number of saved images
C16_Witness ==
    \E j \in Jobs :
        /\ job[j].pc = "sleep"
        /\ job[j].detail = "img_error"
        /\ \E s \in Range(saved[j]) : s.page = job[j].page /\ s.item = job[j].index
        /\ job[j].img_counter = Len(saved[j]) + 1

\* C17: when the landing page is fetched but its total-pages indicator is
\* absent or is no integer, page_get returns the page count 1 and the job
\* goes on to page 1; a job whose page count is 1 goes through one page,
\* page 1 (the landing URL), and ends as done unless writerow raises.
C17_OnePageWithoutIndicator ==
    \A j \in Jobs :
        /\ landing[j] \in {"absent", "unparsable"} =>
              /\ job[j].st = "running"
              /\ job[j].total_pages = 1
              /\ job[j].pc = "get_data"
              /\ job[j].page = 1
              /\ pagesAttempted[j] = << >>
        /\ job[j].total_pages = 1 =>
              /\ pagesAttempted[j] \in {<< >>, <<1>>}
              /\ job[j].st = "running" /\ job[j].pc # "get_data" => pagesAttempted[j] = <<1>>
              /\ job[j].st = "done" => pagesAttempted[j] = <<1>>

\* page_get has just returned 1 for an unparsable indicator in one job; the
\* other job, with a page count of 1, is done with rows from its one page
C17_Witness ==
    \E j, k \in Jobs :
        /\ landing[j] = "unparsable"
        /\ job[j].total_pages = 1
        /\ job[k].total_pages = 1
        /\ job[k].st = "done"
        /\ pagesAttempted[k] = <<1>>
        /\ RowsOf(k) # << >>

\* what job j has in progress: a request, a write to a file, a row append
InProgress(j) ==
    IF job[j].st # "running" THEN {}
    ELSE {op \in {"page_fetch", "listing_fetch", "detail_fetch", "image", "row"} :
            \/ op = "page_fetch" /\ job[j].pc = "page_get"
            \/ op = "listing_fetch" /\ job[j].pc = "get_data"
            \/ op = "detail_fetch" /\ job[j].pc = "detail_get"
            \/ op = "image" /\ job[j].img >= 1
            \/ op = "row" /\ job[j].row >= 1 /\ job[j].pc = "writerow"}

\* C18: main() submits one job per entry of urls_cuisines, every entry once;
\* no more jobs run than the pool has workers; a job has at most one fetch,
\* download or row append in progress.
C18_OneJobPerEntry ==
    /\ \A a, b \in DOMAIN futures : a # b => futures[a] # futures[b]
    /\ \A j \in Jobs : job[j].st # "unsubmitted" <=> j \in Range(futures)
    /\ mainPc \notin {"start", "submit"} => Len(futures) = Len(urls_cuisines)
    /\ Cardinality(Running) <= max_workers
    /\ \A j \in Jobs : Cardinality(InProgress(j)) <= 1

\* every entry submitted, both jobs running at once, one in an image
\* download and the other in a row append
C18_Witness ==
    /\ Len(futures) = Len(urls_cuisines)
    /\ Cardinality(Running) = Cardinality(Jobs)
    /\ \E j, k \in Jobs : InProgress(j) = {"image"} /\ InProgress(k) = {"row"}

\* C19 (as claimed): when a job is about to download and write an image, the
\* image directory exists, whether or not it existed when main() started.
C19_ImagesDirExists ==
    \A j \in Jobs : job[j].pc = "img_loop" => images_dir

\* C20: every job starts from the initial value of the counter, its first
\* saved image carrying that number; an image saved by one job leaves the
\* counter of every other job as it was; main()'s own img_counter keeps its
\* initial value.
C20_PrivateCounters ==
    /\ [](mainCounter = InitialCounter)
    /\ [](\A j \in Jobs :
            /\ job[j].st = "queued" => job[j].img_counter = InitialCounter
            /\ saved[j] # << >> => saved[j][1].img_path = ImgPath(j, InitialCounter))
    /\ [][\A j, k \in Jobs :
            j # k /\ ImgSaved(j) => job'[k].img_counter = job[k].img_counter]_vars

\* both jobs have saved images, one two and the other one, each from number
\* 1 on, and main()'s counter is still at its initial value
C20_Witness ==
    /\ mainCounter = InitialCounter
    /\ \E j, k \in Jobs :
          /\ Len(saved[j]) = 2 /\ job[j].img_counter = InitialCounter + 2
          /\ Len(saved[k]) = 1 /\ job[k].img_counter = InitialCounter + 1
          /\ saved[k][1].img_path = ImgPath(k, InitialCounter)

====
